---- MODULE Spec2Model ----
(***************************************************************************)
(* hub-scrub (cmd/hub-scrub/main.go): log in to the registry, walk the     *)
(* paginated tag list of one image, delete every tag older than the        *)
(* threshold.  The program is one sequential thread; its position is pc,   *)
(* and every step that talks to the network is one action.  The registry   *)
(* and the clock are the environment: their answers are drawn from small   *)
(* sets.                                                                   *)
(*                                                                         *)
(* Instants are integers counting nanoseconds from Go's zero time.Time     *)
(* (0001-01-01T00:00:00Z), durations are integers counting nanoseconds.    *)
(* URLs of tag-list pages are numbered: k stands for the k-th page's URL,  *)
(* NoURL for the empty string and BadURL for a string url.Parse rejects.   *)
(***************************************************************************)
EXTENDS Integers, Sequences, FiniteSets, TLC

\* ------------------------------------------------------------------ bounds
\* Number of distinct tag-list pages the registry holds.
NumPages == 2
\* Latest reading the wall clock gives in a run.
MaxNow == 6
\* Page GETs after which a walk that is still running is cut off.
MaxGets == NumPages + 1

\* --------------------------------------------------------------- constants
StatusOK == 200
StatusNoContent == 204
StatusForbidden == 403
StatusServerError == 500

NoURL == 0
BadURL == -1
StartURL == 1
PageURLs == 1..NumPages

\* First reading of the wall clock.
FirstNow == 5

VARIABLES
    pc,              \* position of main
    exitCode,        \* process exit code, -1 while running
    thresholdStr,    \* the -t flag
    threshold,       \* time.Duration parsed from it
    pages,           \* the registry's tag-list pages served so far, by URL
    hubDeleted,      \* names of the tags the registry has deleted
    now,             \* last reading of the wall clock
    token,           \* authenticationResponse.Token
    url,             \* List: url
    resultsUntyped,  \* List: resultsUntyped
    listErr,         \* what List returned: "pending", "nil" or the failing stage
    tags,            \* main: tags
    idx,             \* main: position of the range loop in tags (1-based)
    rsp,             \* the response whose body is being handled
    openBodies,      \* response bodies obtained and not closed
    reqs,            \* every request handed to client.Do, in order
    evals,           \* clock reading at each evaluation of a tag, in order
    out              \* lines printed

vars == <<pc, exitCode, thresholdStr, threshold, pages, hubDeleted, now, token,
          url, resultsUntyped, listErr, tags, idx, rsp, openBodies, reqs,
          evals, out>>

\* ------------------------------------------------------------- wire values
\* time.Parse(time.RFC3339Nano, s)
ParseRFC3339Nano(s) ==
    CASE s = "0001-01-01T00:00:00.000000001Z" -> [err |-> FALSE, t |-> 1]
      [] s = "0001-01-01T00:00:00.000000003Z" -> [err |-> FALSE, t |-> 3]
      [] s = "0001-01-01T00:00:00.000000005Z" -> [err |-> FALSE, t |-> 5]
      [] OTHER -> [err |-> TRUE, t |-> 0]

\* time.ParseDuration(s)
ParseDuration(s) ==
    CASE s = "2ns" -> [err |-> FALSE, d |-> 2]
      [] s = "3ns" -> [err |-> FALSE, d |-> 3]
      [] OTHER -> [err |-> TRUE, d |-> 0]

\* Values of the -t flag: a duration and the flag's default.
ThresholdArgs == {"2ns", ""}

\* Untyped result records as a page carries them: with the threshold of 2ns
\* and the clock between FirstNow and MaxNow, v1 is always over the threshold,
\* v2 is at it or one nanosecond over, v4 is under it, v3 does not decode.
RecOld  == [name |-> "v1", last_updated |-> "0001-01-01T00:00:00.000000001Z"]
RecEdge == [name |-> "v2", last_updated |-> "0001-01-01T00:00:00.000000003Z"]
RecYoung == [name |-> "v4", last_updated |-> "0001-01-01T00:00:00.000000005Z"]
RecBad  == [name |-> "v3", last_updated |-> "yesterday"]

\* The result lists a page may carry.
ResultLists == { <<>>, <<RecYoung>>, <<RecEdge, RecOld>>, <<RecBad>> }

\* The zero Tag.
ZeroTag == [Name |-> "", LastUpdated |-> 0]

\* Time.UnmarshalJSON and the decoding of one record into a Tag.
DecodeTag(rec) ==
    LET p == ParseRFC3339Nano(rec.last_updated)
    IN  IF p.err THEN [err |-> TRUE, tag |-> ZeroTag]
        ELSE [err |-> FALSE, tag |-> [Name |-> rec.name, LastUpdated |-> p.t]]

\* json.Marshal(resultsUntyped) followed by json.Unmarshal into the TagList:
\* records are decoded in order; the first one that fails stops the decoding
\* and leaves the slice with the records before it and a zero Tag.
RECURSIVE DecodeTagList(_)
DecodeTagList(untyped) ==
    IF untyped = <<>> THEN [err |-> FALSE, tags |-> <<>>]
    ELSE LET d == DecodeTag(Head(untyped))
         IN  IF d.err THEN [err |-> TRUE, tags |-> <<ZeroTag>>]
             ELSE LET r == DecodeTagList(Tail(untyped))
                  IN  [err |-> r.err, tags |-> <<d.tag>> \o r.tags]

\* Response bodies.  A page body is the JSON of a Page; "errobj" is a JSON
\* object with none of Page's fields (an API error document); "malformed" is
\* not JSON.
PageBody(p) == [kind |-> "page", next |-> p.next, results |-> p.results]
ErrBody == [kind |-> "errobj"]
MalformedBody == [kind |-> "malformed"]
TokenBody == [kind |-> "token", token |-> "jwt"]

\* json.Unmarshal(body, page)
UnmarshalPage(body) ==
    CASE body.kind = "page" -> [err |-> FALSE, Next |-> body.next, Results |-> body.results]
      [] body.kind = "errobj" -> [err |-> FALSE, Next |-> NoURL, Results |-> <<>>]
      [] body.kind = "token" -> [err |-> FALSE, Next |-> NoURL, Results |-> <<>>]
      [] OTHER -> [err |-> TRUE, Next |-> NoURL, Results |-> <<>>]

\* json.Unmarshal(body, authenticationResponse)
UnmarshalAuth(body) ==
    CASE body.kind = "token" -> [err |-> FALSE, Token |-> body.token]
      [] body.kind = "errobj" -> [err |-> FALSE, Token |-> ""]
      [] body.kind = "page" -> [err |-> FALSE, Token |-> ""]
      [] OTHER -> [err |-> TRUE, Token |-> ""]

\* What the registry may answer to a login.
LoginResponses ==
    { [status |-> StatusOK, body |-> TokenBody],
      [status |-> StatusForbidden, body |-> ErrBody],
      [status |-> StatusServerError, body |-> MalformedBody] }

\* The pages the registry may hold.
PageContents == [next : PageURLs \cup {NoURL, BadURL}, results : ResultLists]

\* The page the registry holds at u: the one it served before, if any.
PagesAt(u) == IF u \in DOMAIN pages THEN {pages[u]} ELSE PageContents

\* What the registry may answer to a GET of a URL at which it holds page p.
GetResponses(p) ==
    { [status |-> StatusOK, body |-> PageBody(p)],
      [status |-> StatusOK, body |-> MalformedBody],
      [status |-> StatusServerError, body |-> ErrBody],
      [status |-> StatusServerError, body |-> MalformedBody] }

\* What the registry may answer to a DELETE.
DeleteStatuses == {StatusNoContent, StatusForbidden}

NoRsp == [status |-> 0, body |-> [kind |-> "none"]]

\* time.Until in place of time.Since.
SinceReversed(t, n) == t - n

\* time.Since(t) with the clock reading n
Since(t, n) == n - t

\* The comparison made inclusive.
ExpiredInclusive(tag, n) == Since(tag.LastUpdated, n) >= threshold

\* The condition under which the reaper deletes a tag.
Expired(tag, n) == Since(tag.LastUpdated, n) > threshold

\* A page's records put in front of the accumulator.
AccumulatePrepending(acc, page) == page.Results \o acc

\* append(resultsUntyped, page.Results...)
Accumulate(acc, page) == acc \o page.Results

\* The cursor dropped after the first page.
FollowCursorOnce(page) == NoURL

\* url = page.Next
FollowCursor(page) == page.Next

\* os.Exit(code) after printing line
Exit(code, line) ==
    /\ pc' = "exit"
    /\ exitCode' = code
    /\ out' = Append(out, line)

Gets == SelectSeq(reqs, LAMBDA r : r.method = "GET")
Deletes == SelectSeq(reqs, LAMBDA r : r.method = "DELETE")
Posts == SelectSeq(reqs, LAMBDA r : r.method = "POST")

Request(m, target, i, outcome, status, body) ==
    [method |-> m, target |-> target, idx |-> i, token |-> token,
     outcome |-> outcome, status |-> status, body |-> body]

\* ------------------------------------------------------------------- Init
Init ==
    /\ pc = "start"
    /\ exitCode = -1
    /\ thresholdStr \in ThresholdArgs
    /\ threshold = 0
    /\ pages = [u \in {} |-> 0]
    /\ hubDeleted = {}
    /\ now = FirstNow
    /\ token = ""
    /\ url = NoURL
    /\ resultsUntyped = <<>>
    /\ listErr = "pending"
    /\ tags = <<>>
    /\ idx = 0
    /\ rsp = NoRsp
    /\ openBodies = 0
    /\ reqs = <<>>
    /\ evals = <<>>
    /\ out = <<>>

\* ---------------------------------------------------------------- actions
\* A threshold that does not parse taken as zero.
ParseThresholdLenient ==
    /\ pc = "start"
    /\ threshold' = ParseDuration(thresholdStr).d
    /\ pc' = "login"
    /\ UNCHANGED <<exitCode, out, thresholdStr, pages, hubDeleted, now, token, url,
                   resultsUntyped, listErr, tags, idx, rsp, openBodies, reqs, evals>>

\* main, lines 149-153: parse the threshold.
ParseThreshold ==
    /\ pc = "start"
    /\ LET d == ParseDuration(thresholdStr)
       IN  IF d.err
           THEN /\ Exit(1, [msg |-> "unable to parse threshold"])
                /\ UNCHANGED threshold
           ELSE /\ threshold' = d.d
                /\ pc' = "login"
                /\ UNCHANGED <<exitCode, out>>
    /\ UNCHANGED <<thresholdStr, pages, hubDeleted, now, token, url, resultsUntyped,
                   listErr, tags, idx, rsp, openBodies, reqs, evals>>

\* main, lines 155-181: build and send the login request.  json.Marshal of a
\* map of strings and http.NewRequest with the fixed login URL return no
\* error, so the exits of lines 164-167 and 170-173 are never taken.
Login ==
    /\ pc = "login"
    /\ \/ /\ Exit(1, [msg |-> "unable to authenticate with registry"])
          /\ reqs' = Append(reqs, Request("POST", "login", 0, "error", 0, NoRsp.body))
          /\ UNCHANGED <<rsp, openBodies>>
       \/ \E r \in LoginResponses :
            /\ reqs' = Append(reqs, Request("POST", "login", 0, "response", r.status, r.body))
            /\ rsp' = r
            /\ openBodies' = openBodies + 1
            /\ pc' = "loginRsp"
            /\ UNCHANGED <<exitCode, out>>
    /\ UNCHANGED <<thresholdStr, threshold, pages, hubDeleted, now, token, url,
                   resultsUntyped, listErr, tags, idx, evals>>

\* main, lines 183-199: read, close and decode the login response, call List.
LoginRsp ==
    /\ pc = "loginRsp"
    /\ \/ /\ Exit(1, [msg |-> "unable to read authentication response"])
          /\ UNCHANGED <<rsp, openBodies, token, url>>
       \/ /\ rsp' = NoRsp
          /\ openBodies' = openBodies - 1
          /\ LET a == UnmarshalAuth(rsp.body)
             IN  IF a.err
                 THEN /\ Exit(1, [msg |-> "unable to unmarshal authentication response"])
                      /\ UNCHANGED <<token, url>>
                 ELSE /\ token' = a.Token
                      /\ url' = StartURL
                      /\ pc' = "list"
                      /\ UNCHANGED <<exitCode, out>>
    /\ UNCHANGED <<thresholdStr, threshold, pages, hubDeleted, now, resultsUntyped,
                   listErr, tags, idx, reqs, evals>>

\* A listing failure made fatal like the other failures.
ListFailsFatal(stage) ==
    /\ listErr' = stage
    /\ Exit(1, [msg |-> "unable to list tags"])

\* List returns err to main, lines 199-202: print and exit 0.
ListFails(stage) ==
    /\ listErr' = stage
    /\ Exit(0, [msg |-> "unable to list tags"])

\* List, lines 82-99: build and send the GET of the current url.
ListGet ==
    /\ pc = "list"
    /\ url # NoURL
    /\ Len(Gets) < MaxGets
    /\ IF url = BadURL
       THEN /\ ListFails("request")
            /\ UNCHANGED <<reqs, rsp, openBodies, pages>>
       ELSE \/ /\ ListFails("transport")
               /\ reqs' = Append(reqs, Request("GET", url, 0, "error", 0, NoRsp.body))
               /\ UNCHANGED <<rsp, openBodies, pages>>
            \/ \E p \in PagesAt(url) : \E r \in GetResponses(p) :
                 /\ pages' = [u \in DOMAIN pages \cup {url} |-> IF u = url THEN p ELSE pages[u]]
                 /\ reqs' = Append(reqs, Request("GET", url, 0, "response", r.status, r.body))
                 /\ rsp' = r
                 /\ openBodies' = openBodies + 1
                 /\ pc' = "listRsp"
                 /\ UNCHANGED <<exitCode, out, listErr>>
    /\ UNCHANGED <<thresholdStr, threshold, hubDeleted, now, token, url,
                   resultsUntyped, tags, idx, evals>>

\* List, lines 101-115: read, close and decode the page, follow its cursor.
ListRsp ==
    /\ pc = "listRsp"
    /\ \/ /\ ListFails("read")
          /\ UNCHANGED <<rsp, openBodies, resultsUntyped, url>>
       \/ /\ rsp' = NoRsp
          /\ openBodies' = openBodies - 1
          /\ LET page == UnmarshalPage(rsp.body)
             IN  IF page.err
                 THEN /\ ListFails("decode")
                      /\ UNCHANGED <<resultsUntyped, url>>
                 ELSE /\ resultsUntyped' = Accumulate(resultsUntyped, page)
                      /\ url' = FollowCursor(page)
                      /\ pc' = "list"
                      /\ UNCHANGED <<exitCode, out, listErr>>
    /\ UNCHANGED <<thresholdStr, threshold, pages, hubDeleted, now, token, tags,
                   idx, reqs, evals>>

\* List, lines 82-84 and 118-127: the cursor is empty; materialise the TagList.
\* json.Marshal of values json.Unmarshal produced returns no error, so the
\* return of lines 119-121 is never taken.
ListFinish ==
    /\ pc = "list"
    /\ url = NoURL
    /\ LET d == DecodeTagList(resultsUntyped)
       IN  /\ tags' = d.tags
           /\ IF d.err
              THEN /\ ListFails("typed")
                   /\ UNCHANGED idx
              ELSE /\ listErr' = "nil"
                   /\ idx' = 1
                   /\ pc' = "reap"
                   /\ UNCHANGED <<exitCode, out>>
    /\ UNCHANGED <<thresholdStr, threshold, pages, hubDeleted, now, token, url,
                   resultsUntyped, rsp, openBodies, reqs, evals>>

\* A failed delete attempt reported, the loop going on to the next tag.
DeleteFailedContinues(line, msg) ==
    /\ out' = out \o <<line, [msg |-> msg]>>
    /\ idx' = idx + 1
    /\ UNCHANGED <<pc, exitCode, rsp, openBodies>>

\* main, lines 210-213 and 218-221: a delete request that cannot be built or
\* sent ends the process with code 1.
DeleteFailed(line, msg) ==
    /\ pc' = "exit"
    /\ exitCode' = 1
    /\ out' = out \o <<line, [msg |-> msg]>>
    /\ UNCHANGED <<rsp, openBodies, idx>>

\* main, lines 205-221: evaluate the next tag with the clock reading n; if it
\* is old enough, print its age at a second reading m, build and send its
\* DELETE.  The URL holds tag.Name, and http.NewRequest rejects some
\* names.
ReapTag ==
    /\ pc = "reap"
    /\ idx <= Len(tags)
    /\ \E n \in now..MaxNow :
         LET tag == tags[idx]
         IN  /\ evals' = Append(evals, n)
             /\ IF Expired(tag, n)
                THEN \E m \in n..MaxNow :
                     LET line == [msg |-> "deleting tag", name |-> tag.Name,
                                  age |-> Since(tag.LastUpdated, m)]
                     IN  /\ now' = m
                         /\ \/ /\ DeleteFailed(line, "unable to create delete request")
                               /\ UNCHANGED <<reqs, hubDeleted>>
                            \/ /\ DeleteFailed(line, "unable to perform delete request")
                               /\ reqs' = Append(reqs, Request("DELETE", tag.Name, idx, "error", 0, NoRsp.body))
                               /\ hubDeleted' \in {hubDeleted, hubDeleted \cup {tag.Name}}
                            \/ \E s \in DeleteStatuses :
                                 /\ reqs' = Append(reqs, Request("DELETE", tag.Name, idx, "response", s, NoRsp.body))
                                 /\ rsp' = [status |-> s, body |-> NoRsp.body]
                                 /\ openBodies' = openBodies + 1
                                 /\ hubDeleted' = IF s = StatusNoContent
                                                  THEN hubDeleted \cup {tag.Name}
                                                  ELSE hubDeleted
                                 /\ out' = Append(out, line)
                                 /\ pc' = "deleteRsp"
                                 /\ UNCHANGED <<exitCode, idx>>
                ELSE /\ now' = n
                     /\ idx' = idx + 1
                     /\ UNCHANGED <<pc, exitCode, out, reqs, rsp, openBodies, hubDeleted>>
    /\ UNCHANGED <<thresholdStr, threshold, pages, token, url, resultsUntyped,
                   listErr, tags>>

\* An unexpected status made fatal.
DeleteRspAborting ==
    /\ pc = "deleteRsp"
    /\ rsp' = NoRsp
    /\ openBodies' = openBodies - 1
    /\ IF rsp.status # StatusNoContent
       THEN /\ Exit(1, [msg |-> "unexpected status code", status |-> rsp.status])
            /\ UNCHANGED idx
       ELSE /\ idx' = idx + 1
            /\ pc' = "reap"
            /\ UNCHANGED <<exitCode, out>>
    /\ UNCHANGED <<thresholdStr, threshold, pages, hubDeleted, now, token,
                   url, resultsUntyped, listErr, tags, reqs, evals>>

\* main, lines 223-228: close the DELETE's response, report its status.
DeleteRsp ==
    /\ pc = "deleteRsp"
    /\ rsp' = NoRsp
    /\ openBodies' = openBodies - 1
    /\ out' = IF rsp.status # StatusNoContent
              THEN Append(out, [msg |-> "unexpected status code", status |-> rsp.status])
              ELSE out
    /\ idx' = idx + 1
    /\ pc' = "reap"
    /\ UNCHANGED <<exitCode, thresholdStr, threshold, pages, hubDeleted, now, token,
                   url, resultsUntyped, listErr, tags, reqs, evals>>

\* main, lines 205 and 230: the range is exhausted, main returns.
MainReturn ==
    /\ pc = "reap"
    /\ idx > Len(tags)
    /\ pc' = "exit"
    /\ exitCode' = 0
    /\ UNCHANGED <<thresholdStr, threshold, pages, hubDeleted, now, token, url,
                   resultsUntyped, listErr, tags, idx, rsp, openBodies, reqs,
                   evals, out>>

Next ==
    \/ ParseThreshold
    \/ Login
    \/ LoginRsp
    \/ ListGet
    \/ ListRsp
    \/ ListFinish
    \/ ReapTag
    \/ DeleteRsp
    \/ MainReturn

Spec == Init /\ [][Next]_vars

\* Every behaviour takes the step it can take: the program is one running
\* thread and the registry answers every request it is sent.
LiveSpec == Spec /\ WF_vars(Next)

\* ------------------------------------------------------------ observations
\* The chain of pages the registry holds, followed from the start URL through
\* the pages served: the URLs in order, and how the chain ends ("empty": a
\* page whose next is empty, "cycle": a URL met before, "bad": an unusable
\* URL, "unserved": a page not served yet).
RECURSIVE Walk(_, _)
Walk(u, seen) ==
    IF u = NoURL THEN [urls |-> <<>>, end |-> "empty"]
    ELSE IF u = BadURL THEN [urls |-> <<>>, end |-> "bad"]
    ELSE IF u \in seen THEN [urls |-> <<>>, end |-> "cycle"]
    ELSE IF u \notin DOMAIN pages THEN [urls |-> <<>>, end |-> "unserved"]
    ELSE LET r == Walk(pages[u].next, seen \cup {u})
         IN  [urls |-> <<u>> \o r.urls, end |-> r.end]

Chain == Walk(StartURL, {})

\* The result records of the pages at urls, concatenated in order.
RECURSIVE ConcatResults(_)
ConcatResults(urls) ==
    IF urls = <<>> THEN <<>>
    ELSE pages[Head(urls)].results \o ConcatResults(Tail(urls))

\* The wire form of an instant.
FormatRFC3339Nano(t) ==
    CASE t = 1 -> "0001-01-01T00:00:00.000000001Z"
      [] t = 3 -> "0001-01-01T00:00:00.000000003Z"
      [] t = 5 -> "0001-01-01T00:00:00.000000005Z"
      [] OTHER -> "0001-01-01T00:00:00Z"

\* The record a Tag is the decoding of.
RecordOf(tag) == [name |-> tag.Name, last_updated |-> FormatRFC3339Nano(tag.LastUpdated)]

\* Every page GET so far was answered 200 with the page the registry holds.
CleanWalk ==
    \A i \in 1..Len(Gets) :
        /\ Gets[i].outcome = "response"
        /\ Gets[i].status = StatusOK
        /\ Gets[i].body.kind = "page"

\* Every fetch so far succeeded: each GET was answered with its page and no
\* body read failed.
FetchesSucceed == CleanWalk /\ listErr # "read"

\* List has left its loop.
LoopLeft == listErr \in {"nil", "typed"}

\* List returned an error from inside its loop.
WalkFailed == listErr \in {"request", "transport", "read", "decode"}

\* No delete attempt hit a construction or transport error.
NoDeleteError ==
    \A i \in 1..Len(out) :
        out[i].msg \notin {"unable to create delete request", "unable to perform delete request"}

\* The age of the i-th tag when it was evaluated.
AgeAtEval(i) == evals[i] - tags[i].LastUpdated

\* The positions among the tags evaluated so far whose age exceeded the threshold.
ExpectedIdxs == SelectSeq([i \in 1..Len(evals) |-> i], LAMBDA i : AgeAtEval(i) > threshold)

DeleteIdxs == [k \in 1..Len(Deletes) |-> Deletes[k].idx]

\* The k-th DELETE's response has been handled.
Handled(k) == k < Len(Deletes) \/ pc # "deleteRsp"

\* The k-th DELETE was answered with a status other than 204.
Refused(k) == Deletes[k].outcome = "response" /\ Deletes[k].status # StatusNoContent

ThresholdBad == ParseDuration(thresholdStr).err

LoginFailed ==
    \E i \in 1..Len(out) :
        out[i].msg \in {"unable to authenticate with registry",
                        "unable to read authentication response",
                        "unable to unmarshal authentication response"}

\* -------------------------------------------------------------- properties
\* C1: when every page GET of a chain of N >= 1 pages ending in an empty next
\* is answered with its page, every body is read and every record decodes,
\* List returns nil and
\* the TagList is the concatenation of the pages' records, in page order and
\* in the order inside each page.
C1_Concatenation ==
    ( /\ pc \in {"reap", "deleteRsp", "exit"}
      /\ listErr # "pending"
      /\ FetchesSucceed
      /\ Chain.end = "empty"
      /\ \A i \in 1..Len(ConcatResults(Chain.urls)) :
            ~ParseRFC3339Nano(ConcatResults(Chain.urls)[i].last_updated).err )
    => /\ listErr = "nil"
       /\ Len(tags) = Len(ConcatResults(Chain.urls))
       /\ [i \in 1..Len(tags) |-> RecordOf(tags[i])] = ConcatResults(Chain.urls)

C1_Witness ==
    /\ listErr = "nil"
    /\ CleanWalk
    /\ Chain.urls = <<1, 2>>
    /\ pages[1].results = <<RecEdge, RecOld>>
    /\ pages[2].results = <<RecYoung>>

\* C2: a tag is selected for deletion exactly when the clock reading taken at
\* its evaluation minus its last_updated is strictly greater than the
\* threshold; a tag that is not selected gets no request.
C2_StrictBoundary ==
    [][ (pc = "reap" /\ idx <= Len(tags)) =>
          LET age == evals'[Len(evals')] - tags[idx].LastUpdated
              selected == /\ Len(out') > Len(out)
                          /\ out'[Len(out) + 1].msg = "deleting tag"
                          /\ out'[Len(out) + 1].name = tags[idx].Name
          IN  /\ Len(evals') = Len(evals) + 1
              /\ evals'[Len(evals')] >= now
              /\ selected <=> age > threshold
              /\ age <= threshold => (reqs' = reqs /\ out' = out /\ idx' = idx + 1) ]_vars

C2_Witness ==
    \E i, j \in 1..Len(evals) :
        /\ AgeAtEval(i) = threshold
        /\ \A k \in 1..Len(Deletes) : Deletes[k].idx # i
        /\ AgeAtEval(j) = threshold + 1
        /\ \E k \in 1..Len(Deletes) : Deletes[k].idx = j

\* C3: when listing succeeded and no delete attempt hit a construction or
\* transport error, the DELETEs issued are one per evaluated tag whose age
\* exceeded the threshold, in TagList order, each for that tag's name, and no
\* response is open when the next tag is evaluated.
C3_ExactDeletes ==
    (listErr = "nil" /\ NoDeleteError) =>
        /\ DeleteIdxs = ExpectedIdxs
        /\ \A k \in 1..Len(Deletes) :
              /\ Deletes[k].target = tags[Deletes[k].idx].Name
              /\ Deletes[k].outcome = "response"
        /\ pc = "reap" => (openBodies = 0 /\ rsp = NoRsp)
        /\ pc = "exit" => Len(evals) = Len(tags)

C3_Witness ==
    /\ pc = "exit"
    /\ listErr = "nil"
    /\ NoDeleteError
    /\ tags = <<[Name |-> "v2", LastUpdated |-> 3], [Name |-> "v1", LastUpdated |-> 1]>>
    /\ DeleteIdxs = <<2>>

\* C4: when a step of the pagination walk fails, List returns an error, the
\* TagList stays empty, no DELETE is issued and the process exits with 0.
C4_WalkFailure ==
    /\ ( /\ pc # "listRsp"
         /\ \E i \in 1..Len(Gets) :
               Gets[i].outcome = "error" \/ Gets[i].body.kind = "malformed" )
       => WalkFailed
    /\ WalkFailed =>
          /\ pc = "exit"
          /\ exitCode = 0
          /\ tags = <<>>
          /\ Deletes = <<>>

C4_Witness ==
    /\ WalkFailed
    /\ Len(Gets) = 2
    /\ Gets[1].body.kind = "page"
    /\ Gets[2].body.kind = "malformed"
    /\ resultsUntyped # <<>>
    /\ pc = "exit"

\* C5: every DELETE answered with a status other than 204 gets one diagnostic,
\* printed right after that tag's "deleting tag" line,
\* and the loop goes on: when no delete attempt hit a construction or
\* transport error the process exits with 0 after every tag was evaluated and
\* every later tag over the threshold got its DELETE.
C5_RefusedDeleteContinues ==
    /\ Cardinality({i \in 1..Len(out) : out[i].msg = "unexpected status code"})
         = Cardinality({k \in 1..Len(Deletes) : Refused(k) /\ Handled(k)})
    /\ \A k \in 1..Len(Deletes) :
          (Refused(k) /\ Handled(k)) =>
              \E i \in 1..(Len(out) - 1) :
                  /\ out[i].msg = "deleting tag"
                  /\ out[i].name = Deletes[k].target
                  /\ out[i + 1] = [msg |-> "unexpected status code", status |-> Deletes[k].status]
    /\ \A k \in 1..Len(Deletes) :
          (Refused(k) /\ NoDeleteError /\ pc = "exit") =>
              /\ exitCode = 0
              /\ Len(evals) = Len(tags)
              /\ \A i \in (Deletes[k].idx + 1)..Len(tags) :
                    AgeAtEval(i) > threshold => \E m \in 1..Len(Deletes) : Deletes[m].idx = i

C5_Witness ==
    /\ pc = "exit"
    /\ exitCode = 0
    /\ \E k \in 1..Len(Deletes) :
          /\ Deletes[k].status = StatusForbidden
          /\ k < Len(Deletes)

\* C6: when building or sending a DELETE fails, the process exits with 1 at
\* that tag: no later tag is evaluated or sent a DELETE, and what the registry
\* deleted before stays deleted.
C6_DeleteFailureFatal ==
    ~NoDeleteError =>
        /\ pc = "exit"
        /\ exitCode = 1
        /\ Len(evals) = idx
        /\ \A k \in 1..Len(Deletes) : Deletes[k].idx <= idx
        /\ \A k \in 1..Len(Deletes) :
              (Deletes[k].outcome = "response" /\ Deletes[k].status = StatusNoContent)
                  => Deletes[k].target \in hubDeleted

C6_Witness ==
    /\ ~NoDeleteError
    /\ \E k \in 1..Len(Deletes) : Deletes[k].status = StatusNoContent
    /\ \E i \in (idx + 1)..Len(tags) : now - tags[i].LastUpdated > threshold

\* C7: a transport failure, a decode failure or a non-2xx response to a page
\* GET makes List return an error at once, with no further GET and no results.
C7_AbortOnAnyFailure ==
    \A i \in 1..Len(Gets) :
        ( /\ \/ Gets[i].outcome = "error"
             \/ Gets[i].body.kind = "malformed"
             \/ Gets[i].status \notin 200..299
          /\ i < Len(Gets) \/ pc # "listRsp" )
        => /\ listErr \notin {"pending", "nil"}
           /\ i = Len(Gets)
           /\ tags = <<>>

\* C8: a threshold that does not parse exits with 1 before any request; a
\* failed login exits with 1 before any GET; the login request is the first
\* request and the only login; no DELETE comes before List returned nil; a run
\* with no fatal error exits with 0.
C8_PhaseOrder ==
    /\ (ThresholdBad /\ pc # "start") => (pc = "exit" /\ exitCode = 1 /\ reqs = <<>>)
    /\ LoginFailed => (pc = "exit" /\ exitCode = 1 /\ Gets = <<>> /\ Deletes = <<>>)
    /\ Len(Posts) <= 1
    /\ reqs # <<>> => reqs[1].method = "POST"
    /\ (~ThresholdBad /\ pc \notin {"start", "login"}) => Len(Posts) = 1
    /\ Gets # <<>> => Posts[1].outcome = "response"
    /\ Deletes # <<>> => listErr = "nil"
    /\ pc = "exit" => exitCode \in {0, 1}
    /\ (pc = "exit" /\ ~ThresholdBad /\ ~LoginFailed /\ NoDeleteError) => exitCode = 0

C8_Witness ==
    /\ pc = "exit"
    /\ exitCode = 0
    /\ Len(Posts) = 1
    /\ Len(Gets) = 2
    /\ Deletes # <<>>

\* C9: List leaves its loop only with an empty cursor; on a chain of N pages
\* ending in an empty next, every GET answered with its page, it has then sent
\* exactly one GET per page of the chain, in order, and it does return; when
\* the cursors cycle and every GET is answered with its page it never returns.
C9_LoopStopsOnEmptyCursor ==
    /\ [](LoopLeft => url = NoURL)
    /\ []((FetchesSucceed /\ LoopLeft) =>
            /\ Chain.end = "empty"
            /\ [i \in 1..Len(Gets) |-> Gets[i].target] = Chain.urls)
    /\ []((FetchesSucceed /\ Chain.end = "cycle") =>
            (listErr = "pending" /\ pc \in {"list", "listRsp"}))
    /\ (Chain.end = "empty") ~> (listErr # "pending")

C9_Witness ==
    /\ listErr = "nil"
    /\ CleanWalk
    /\ Len(Gets) = NumPages
    /\ Chain.urls = [i \in 1..NumPages |-> i]

\* C10: at most one response body is open at any time, none is open when a
\* request is about to be sent, when List has returned or when the process
\* has exited.
C10_BodiesClosed ==
    /\ openBodies <= 1
    /\ pc \in {"login", "list", "reap"} => openBodies = 0
    /\ listErr # "pending" => openBodies = 0
    /\ pc = "exit" => openBodies = 0

====
